---- MODULE Spec2Model ----
(***************************************************************************)
(* A model of mdparser's extraction engine (src/src/mdparser/extractors.py) *)
(* extract_headings, extract_emphasized and find_and_extract.               *)
(*                                                                         *)
(* Strings are sequences of one-character strings, so that slicing,        *)
(* stripping, splitting and case folding are computed, not assumed.        *)
(* An optional value is None (the empty tuple) or Some(v) (a 1-tuple).     *)
(***************************************************************************)
EXTENDS Integers, Sequences, FiniteSets, TLC

VARIABLES
    op,                 \* which extractor this run calls
    pc,                 \* position of the call: "start", "walk", "done"
    document,           \* the parsed tree: [kind, level, content, children]
    args,               \* the call's keyword arguments
    headings,           \* extract_headings: the returned list
    heading_stack,      \* extract_emphasized: the closure's heading stack
    emphasized_items,   \* extract_emphasized: the closure's result list
    pending,            \* extract_emphasized: tokens whose _process_token call is still to come
    visited,            \* extract_emphasized: tokens _process_token was called on, in call
                        \* order (history, read by the properties only)
    content,            \* find_and_extract: the raw text
    matches,            \* find_and_extract: the returned list
    error,              \* find_and_extract: the exception raised, or None
    env,                \* main: the file named on the command line and the output path
    results,            \* main: the list the extractor returned
    operation,          \* main: the operation tag, or None
    parameters,         \* main: the parameters echoed in the JSON output
    output,             \* main: the formatted output, or None
    stdout,             \* main: what was printed to stdout, in order
    out_file,           \* main: what was written to the --output file, or None
    exit_code,          \* main: the process exit status, or None while running
    failure,            \* main: the error reported on the way, or None (history)
    trace               \* main: the functions called so far, in order (history)

\* the state of main()
cliVars == <<env, results, operation, parameters, output, stdout, out_file,
             exit_code, failure, trace>>

vars == <<op, pc, document, args, headings, heading_stack, emphasized_items,
          pending, visited, content, matches, error, cliVars>>

-----------------------------------------------------------------------------
(* Bounds of the model *)

\* longest document, in top-level blocks, of the heading runs
MaxBlocks == 3

\* longest document, in top-level blocks, of the emphasis runs
MaxEmphBlocks == 3

\* longest text, in lines, of the search runs
MaxLines == 3

-----------------------------------------------------------------------------
(* Python values *)

None == <<>>
Some(v) == <<v>>
IsNone(o) == o = <<>>
Val(o) == o[1]

\* the variables of main() while an extractor is called on its own
CliIdle ==
    /\ env = None
    /\ results = <<>>
    /\ operation = None
    /\ parameters = None
    /\ output = None
    /\ stdout = <<>>
    /\ out_file = None
    /\ exit_code = None
    /\ failure = None
    /\ trace = <<>>

\* Python truthiness of an Optional[int]: None and 0 are false
TruthyInt(o) == o # None /\ Val(o) # 0
\* Python truthiness of an Optional[str]: None and "" are false
TruthyStr(o) == o # None /\ Val(o) # <<>>

Min(a, b) == IF a <= b THEN a ELSE b
Max(a, b) == IF a >= b THEN a ELSE b

\* s[a:b] for 0 <= a, 0 <= b (0-based, b exclusive, clipped to the string)
Slice(s, a, b) == SubSeq(s, a + 1, Min(b, Len(s)))

\* c * n
Repeat(c, n) == [k \in 1..n |-> c]

Whitespace == {" ", "\n", "\t"}

RECURSIVE LStrip(_)
LStrip(s) == IF s # <<>> /\ Head(s) \in Whitespace THEN LStrip(Tail(s)) ELSE s

RECURSIVE RStrip(_)
RStrip(s) ==
    IF s # <<>> /\ s[Len(s)] \in Whitespace THEN RStrip(SubSeq(s, 1, Len(s) - 1)) ELSE s

\* str.strip()
Strip(s) == LStrip(RStrip(s))

\* "".join(parts)
RECURSIVE Concat(_)
Concat(parts) == IF parts = <<>> THEN <<>> ELSE Head(parts) \o Concat(Tail(parts))

\* "\n".join(parts)
RECURSIVE JoinLines(_)
JoinLines(parts) ==
    IF parts = <<>> THEN <<>>
    ELSE IF Len(parts) = 1 THEN parts[1]
    ELSE parts[1] \o <<"\n">> \o JoinLines(Tail(parts))

\* s.split("\n"): always at least one piece
RECURSIVE SplitLines(_)
SplitLines(s) ==
    IF \A k \in 1..Len(s) : s[k] # "\n" THEN <<s>>
    ELSE LET k == CHOOSE k \in 1..Len(s) :
                      s[k] = "\n" /\ \A m \in 1..(k - 1) : s[m] # "\n"
         IN  <<SubSeq(s, 1, k - 1)>> \o SplitLines(SubSeq(s, k + 1, Len(s)))

UpperLetters ==
    <<"A", "B", "C", "D", "E", "F", "G", "H", "I", "J", "K", "L", "M",
      "N", "O", "P", "Q", "R", "S", "T", "U", "V", "W", "X", "Y", "Z">>

LowerLetters ==
    <<"a", "b", "c", "d", "e", "f", "g", "h", "i", "j", "k", "l", "m",
      "n", "o", "p", "q", "r", "s", "t", "u", "v", "w", "x", "y", "z">>

\* str.lower() on one character
LowerChar(c) ==
    IF \E k \in 1..26 : UpperLetters[k] = c
    THEN LowerLetters[CHOOSE k \in 1..26 : UpperLetters[k] = c]
    ELSE c

Lower(s) == [k \in 1..Len(s) |-> LowerChar(s[k])]

\* sub in s
Contains(s, sub) ==
    \E k \in 0..(Len(s) - Len(sub)) : SubSeq(s, k + 1, k + Len(sub)) = sub

-----------------------------------------------------------------------------
(* Mistletoe tokens, as the extractors see them *)

Tok(kind, level, text, children) ==
    [kind |-> kind, level |-> level, content |-> text, children |-> children]

RawText(text) == Tok("RawText", 0, text, <<>>)
Strong(children) == Tok("Strong", 0, <<>>, children)
Emphasis(children) == Tok("Emphasis", 0, <<>>, children)
Paragraph(children) == Tok("Paragraph", 0, <<>>, children)
CodeFence(children) == Tok("CodeFence", 0, <<>>, children)
Quote(children) == Tok("Quote", 0, <<>>, children)
Heading(level, children) == Tok("Heading", level, <<>>, children)

\* isinstance(token, Heading)
IsHeading(token) == token.kind = "Heading"
\* hasattr(token, "content")
HasContent(token) == token.kind = "RawText"
\* hasattr(token, "children") and token.children is not None
HasChildren(token) == token.kind # "RawText"

RECURSIVE _extract_text_from_token(_)
_extract_text_from_token(token) ==
    IF IsHeading(token)
    THEN Concat([k \in 1..Len(token.children) |->
                    _extract_text_from_token(token.children[k])])
    ELSE IF HasContent(token) THEN token.content
    ELSE Concat([k \in 1..Len(token.children) |->
                    _extract_text_from_token(token.children[k])])

-----------------------------------------------------------------------------
(* extract_headings *)

\* the text one child of a heading contributes
HeadingTextPart(child) ==
    IF HasContent(child) THEN child.content ELSE _extract_text_from_token(child)

\* heading_text = "".join(text_parts).strip()
HeadingText(token) ==
    Strip(Concat([k \in 1..Len(token.children) |-> HeadingTextPart(token.children[k])]))

\* raw_heading = f"{prefix} {heading_text}"
RawHeading(level, text) == Repeat("#", level) \o <<" ">> \o text

LevelSelectedStrict(token, max_level) == token.level < max_level

LevelSelectedExact(token, max_level) == token.level = max_level

\* the filter of the loop: token.level <= max_level
LevelSelected(token, max_level) == token.level <= max_level

\* isinstance(token, Paragraph) or (hasattr(token, "children") and token.children)
IsContentBlock(token) ==
    token.kind = "Paragraph" \/ (HasChildren(token) /\ token.children # <<>>)

RECURSIVE CollectContentPartsToNextHeading(_, _, _)
CollectContentPartsToNextHeading(children, i, heading_index) ==
    IF i >= Len(children) THEN <<>>
    ELSE LET token == children[i + 1]
             text == Strip(_extract_text_from_token(token))
         IN  IF IsHeading(token) THEN <<>>
             ELSE (IF IsContentBlock(token) /\ text # <<>> THEN <<text>> ELSE <<>>)
                  \o CollectContentPartsToNextHeading(children, i + 1, heading_index)

\* the look-ahead loop, from 0-based index i; heading_index is the 0-based index
\* of the heading the content belongs to
RECURSIVE CollectContentParts(_, _, _)
CollectContentParts(children, i, heading_index) ==
    IF i >= Len(children) THEN <<>>
    ELSE LET token == children[i + 1]
             heading_level == children[heading_index + 1].level
             text == Strip(_extract_text_from_token(token))
         IN  IF IsHeading(token) /\ token.level <= heading_level THEN <<>>
             ELSE (IF IsContentBlock(token) /\ text # <<>> THEN <<text>> ELSE <<>>)
                  \o CollectContentParts(children, i + 1, heading_index)

\* the limits applied to the joined content
ApplyLimitsElseAll(full_content, lines, chars) ==
    IF lines # None /\ Val(lines) > 0
    THEN Some(JoinLines(Slice(SplitLines(full_content), 0, Val(lines))))
    ELSE IF chars # None /\ Val(chars) > 0
    THEN Some(Slice(full_content, 0, Val(chars)))
    ELSE Some(full_content)

ApplyLimitsCharsFirst(full_content, lines, chars) ==
    IF chars # None /\ Val(chars) > 0
    THEN Some(Slice(full_content, 0, Val(chars)))
    ELSE IF lines # None /\ Val(lines) > 0
    THEN Some(JoinLines(Slice(SplitLines(full_content), 0, Val(lines))))
    ELSE None

ApplyLimits(full_content, lines, chars) ==
    IF lines # None /\ Val(lines) > 0
    THEN Some(JoinLines(Slice(SplitLines(full_content), 0, Val(lines))))
    ELSE IF chars # None /\ Val(chars) > 0
    THEN Some(Slice(full_content, 0, Val(chars)))
    ELSE None

_get_content_after_heading(children, heading_index, lines, chars) ==
    IF lines = None /\ chars = None THEN None
    ELSE LET content_parts == CollectContentParts(children, heading_index + 1, heading_index)
         IN  IF content_parts = <<>> THEN None
             ELSE ApplyLimits(JoinLines(content_parts), lines, chars)

AttachContentKeepRaw(heading_data, body) ==
    [heading_data EXCEPT !.content = Some(body)]

\* heading_data["content"] = content; heading_data["raw"] = f"{raw_heading}\n{content}"
AttachContent(heading_data, body) ==
    [heading_data EXCEPT !.content = Some(body),
                         !.raw = heading_data.raw \o <<"\n">> \o body]

\* the record built for the heading at 0-based index i of children
HeadingData(children, i, a) ==
    LET token == children[i + 1]
        heading_text == HeadingText(token)
        heading_data == [level |-> token.level, text |-> heading_text,
                         raw |-> RawHeading(token.level, heading_text),
                         content |-> None]
        body == _get_content_after_heading(children, i, a.include_content_lines,
                                           a.include_content_chars)
    IN  IF TruthyInt(a.include_content_for_level)
           /\ token.level = Val(a.include_content_for_level)
           /\ TruthyStr(body)
        THEN AttachContent(heading_data, Val(body))
        ELSE heading_data

\* for i, token in enumerate(children), from 0-based index i on
RECURSIVE HeadingsFrom(_, _, _)
HeadingsFrom(children, i, a) ==
    IF i >= Len(children) THEN <<>>
    ELSE (IF IsHeading(children[i + 1]) /\ LevelSelected(children[i + 1], a.max_level)
          THEN <<HeadingData(children, i, a)>> ELSE <<>>)
         \o HeadingsFrom(children, i + 1, a)

extract_headings_unquoted(doc, a) ==
    HeadingsFrom(Concat([k \in 1..Len(doc.children) |->
                            IF doc.children[k].kind = "Quote"
                            THEN doc.children[k].children
                            ELSE <<doc.children[k]>>]), 0, a)

extract_headings(doc, a) == HeadingsFrom(doc.children, 0, a)

-----------------------------------------------------------------------------
(* Inputs of the heading runs *)

Paragraph_x == Paragraph(<<RawText(<<"x">>)>>)

HeadingBlocks ==
    { Heading(1, <<RawText(<<"A">>)>>),
      Heading(2, <<RawText(<<"b", " ">>), Strong(<<RawText(<<"c">>)>>)>>),
      Heading(3, <<RawText(<<"d">>)>>),
      Paragraph_x,
      CodeFence(<<RawText(<<"p", "\n", "q", "\n">>)>>),
      Quote(<<Heading(1, <<RawText(<<"Q">>)>>)>>) }

DocumentOf(blocks) == Tok("Document", 0, <<>>, blocks)

\* a section with a sub-heading and a paragraph, then a sibling section
NestedSectionDocument ==
    DocumentOf(<<Heading(1, <<RawText(<<"A">>)>>),
                 Heading(2, <<RawText(<<"b", " ">>), Strong(<<RawText(<<"c">>)>>)>>),
                 Paragraph_x,
                 Heading(1, <<RawText(<<"A">>)>>),
                 CodeFence(<<RawText(<<"p", "\n", "q", "\n">>)>>)>>)

HeadingDocuments ==
    { DocumentOf(b) : b \in UNION { [1..n -> HeadingBlocks] : n \in 0..MaxBlocks } }
    \cup {NestedSectionDocument}

HeadingArgs ==
    [ max_level : {0, 1, 2, 6},
      include_content_for_level : {None, Some(1), Some(2)},
      include_content_lines : {None, Some(0), Some(1), Some(2)},
      include_content_chars : {None, Some(-1), Some(0), Some(2)} ]

NoDocument == DocumentOf(<<>>)

InitHeadings ==
    /\ op = "headings"
    /\ pc = "start"
    /\ document \in HeadingDocuments
    /\ args \in HeadingArgs
    /\ headings = <<>>
    /\ heading_stack = <<>>
    /\ emphasized_items = <<>>
    /\ pending = <<>>
    /\ visited = <<>>
    /\ content = <<>>
    /\ matches = <<>>
    /\ error = None
    /\ CliIdle

\* results = extract_headings(document, max_level=..., ...)
ExtractHeadings ==
    /\ op = "headings"
    /\ pc = "start"
    /\ headings' = extract_headings(document, args)
    /\ pc' = "done"
    /\ UNCHANGED <<op, document, args, heading_stack, emphasized_items, pending,
                   visited, content, matches, error, cliVars>>

NextHeadings == ExtractHeadings

SpecHeadings == InitHeadings /\ [][NextHeadings]_vars

HeadingsDone == op = "headings" /\ pc = "done"

\* the top-level heading nodes a call selects, in document order
SelectedHeadings == 
    SelectSeq(document.children,
              LAMBDA t : t.kind = "Heading" /\ t.level <= args.max_level)

\* C1: extract_headings returns exactly one record per top-level heading node
\* with level <= max_level, none with a greater level, in the order of the
\* heading nodes in the document.
C1_HeadingsSelectedInOrder ==
    HeadingsDone =>
        /\ Len(headings) = Len(SelectedHeadings)
        /\ \A k \in 1..Len(headings) :
              /\ headings[k].level = SelectedHeadings[k].level
              /\ headings[k].text = Strip(_extract_text_from_token(SelectedHeadings[k]))
              /\ headings[k].level <= args.max_level

\* a call that drops a deeper heading and keeps a level-2 heading before a level-1 one
C1_Witness ==
    /\ HeadingsDone
    /\ Len(headings) = 2
    /\ headings[1].level = 2
    /\ headings[2].level = 1
    /\ \E k \in 1..Len(document.children) :
          /\ document.children[k].kind = "Heading"
          /\ document.children[k].level > args.max_level

RECURSIVE IsSubsequence(_, _)
IsSubsequence(s, t) ==
    IF s = <<>> THEN TRUE
    ELSE IF t = <<>> THEN FALSE
    ELSE IF Head(s) = Head(t) THEN IsSubsequence(Tail(s), Tail(t))
    ELSE IsSubsequence(s, Tail(t))

LevelText(h) == [k \in 1..Len(h) |-> <<h[k].level, h[k].text>>]

HeadingsAtSix == extract_headings(document, [args EXCEPT !.max_level = 6])

\* C2: for L < 6 the (level, text) sequence returned for max_level = L is a
\* subsequence of the one returned for max_level = 6, which is at least as long.
C2_MonotoneInMaxLevel ==
    (HeadingsDone /\ args.max_level < 6) =>
        /\ IsSubsequence(LevelText(headings), LevelText(HeadingsAtSix))
        /\ Len(HeadingsAtSix) >= Len(headings)

\* a call with L < 6 that returns some headings, and fewer than max_level = 6 does
C2_Witness ==
    /\ HeadingsDone
    /\ args.max_level < 6
    /\ Len(headings) >= 1
    /\ Len(HeadingsAtSix) > Len(headings)

\* 0-based top-level index of the node the k-th returned record was built from
SelectedIndex(k) ==
    LET Sel(i) == /\ document.children[i + 1].kind = "Heading"
                  /\ document.children[i + 1].level <= args.max_level
    IN  CHOOSE i \in 0..(Len(document.children) - 1) :
            Sel(i) /\ Cardinality({j \in 0..(i - 1) : Sel(j)}) = k - 1

BareHeadingLine(r) == [n \in 1..r.level |-> "#"] \o <<" ">> \o r.text

\* C3: a record has content iff non-empty body content was collected for it,
\* which requires include_level to equal its level; with content, raw is the
\* heading line, a newline and the content; without, raw is the bare heading line.
C3_ContentAndRaw ==
    HeadingsDone =>
        \A k \in 1..Len(headings) :
            LET r == headings[k]
                i == SelectedIndex(k)
                body == _get_content_after_heading(document.children, i,
                            args.include_content_lines, args.include_content_chars)
            IN  /\ (r.content # None) <=>
                       /\ args.include_content_for_level # None
                       /\ r.level = Val(args.include_content_for_level)
                       /\ body # None
                       /\ Val(body) # <<>>
                /\ (r.content # None) =>
                       /\ r.content = body
                       /\ Val(r.content) # <<>>
                       /\ CollectContentParts(document.children, i + 1, i) # <<>>
                       /\ r.raw = BareHeadingLine(r) \o <<"\n">> \o Val(r.content)
                /\ (r.content = None) => r.raw = BareHeadingLine(r)

\* a call returning one record with content and one without
C3_Witness ==
    /\ HeadingsDone
    /\ \E k \in 1..Len(headings) : headings[k].content # None
    /\ \E k \in 1..Len(headings) : headings[k].content = None

-----------------------------------------------------------------------------
(* extract_emphasized *)

IsStrong(token) == token.kind = "Strong"
IsEmphasis(token) == token.kind = "Emphasis"

RECURSIVE PopDeeperOnly(_, _)
PopDeeperOnly(stack, level) ==
    IF stack # <<>> /\ stack[Len(stack)].level > level
    THEN PopDeeperOnly(SubSeq(stack, 1, Len(stack) - 1), level)
    ELSE stack

\* while heading_stack and heading_stack[-1]["level"] >= token.level: heading_stack.pop()
RECURSIVE PopDeeper(_, _)
PopDeeper(stack, level) ==
    IF stack # <<>> /\ stack[Len(stack)].level >= level
    THEN PopDeeper(SubSeq(stack, 1, Len(stack) - 1), level)
    ELSE stack

PushHeadingUnlessPopped(stack, token) ==
    IF PopDeeper(stack, token.level) = stack
    THEN Append(stack, [level |-> token.level, text |-> _extract_text_from_token(token)])
    ELSE PopDeeper(stack, token.level)

\* the heading branch of _process_token
PushHeading(stack, token) ==
    Append(PopDeeper(stack, token.level),
           [level |-> token.level, text |-> _extract_text_from_token(token)])

CurrentHeadingBottom(stack) == IF stack # <<>> THEN Some(stack[1].text) ELSE None

\* current_heading = heading_stack[-1]["text"] if heading_stack else None
CurrentHeading(stack) == IF stack # <<>> THEN Some(stack[Len(stack)].text) ELSE None

MatchesFilterTopOnly(stack, heading_filter) ==
    IF TruthyStr(heading_filter)
    THEN /\ stack # <<>>
         /\ Contains(Lower(stack[Len(stack)].text), Lower(Val(heading_filter)))
    ELSE TRUE

\* matches_filter: no filter, or the filter is in the text of some stack entry
MatchesFilter(stack, heading_filter) ==
    IF TruthyStr(heading_filter)
    THEN \E k \in 1..Len(stack) :
            Contains(Lower(stack[k].text), Lower(Val(heading_filter)))
    ELSE TRUE

WantsBoldOnlyBold(type) == type = "bold"

\* type in ("all", "bold")
WantsBold(type) == type \in {"all", "bold"}

\* type in ("all", "italic")
WantsItalic(type) == type \in {"all", "italic"}

EmphasisRecord(kind, token, stack) ==
    [type |-> kind, text |-> _extract_text_from_token(token),
     heading_context |-> CurrentHeading(stack)]

\* the body of _process_token before it recurses: the stack and the result list
\* after the token itself was handled
ProcessToken(stack, items, token, a) ==
    LET stack1 == IF IsHeading(token) THEN PushHeading(stack, token) ELSE stack
        items1 ==
            IF IsStrong(token) /\ WantsBold(a.type)
            THEN IF MatchesFilter(stack1, a.heading_filter)
                 THEN Append(items, EmphasisRecord("bold", token, stack1))
                 ELSE items
            ELSE IF IsEmphasis(token) /\ WantsItalic(a.type)
            THEN IF MatchesFilter(stack1, a.heading_filter)
                 THEN Append(items, EmphasisRecord("italic", token, stack1))
                 ELSE items
            ELSE items
    IN  [stack |-> stack1, items |-> items1]

PendingAfterSkipSpans(todo) ==
    (IF HasChildren(Head(todo)) /\ ~IsStrong(Head(todo)) /\ ~IsEmphasis(Head(todo))
     THEN Head(todo).children ELSE <<>>) \o Tail(todo)

\* for child in token.children: _process_token(child), ahead of the calls still to come
PendingAfter(todo) ==
    (IF HasChildren(Head(todo)) THEN Head(todo).children ELSE <<>>) \o Tail(todo)

\* the whole call: the list returned once every _process_token call is made
RECURSIVE WalkFrom(_, _, _, _)
WalkFrom(todo, stack, items, a) ==
    IF todo = <<>> THEN items
    ELSE LET st == ProcessToken(stack, items, Head(todo), a)
         IN  WalkFrom(PendingAfter(todo), st.stack, st.items, a)

extract_emphasized(doc, a) == WalkFrom(doc.children, <<>>, <<>>, a)

-----------------------------------------------------------------------------
(* Inputs of the emphasis runs *)

Strong_s == Strong(<<RawText(<<"s">>)>>)

EmphasisBlocks ==
    { Heading(1, <<RawText(<<"A">>)>>),
      Heading(2, <<RawText(<<"a", "b">>)>>),
      Heading(2, <<RawText(<<"B">>), Emphasis(<<RawText(<<"i">>)>>)>>),
      Heading(3, <<RawText(<<"t">>)>>),
      Paragraph(<<RawText(<<"x">>), Strong_s>>),
      Paragraph(<<Emphasis(<<RawText(<<"i">>), Strong(<<RawText(<<"n">>)>>)>>)>>),
      Quote(<<Heading(1, <<RawText(<<"S">>)>>), Paragraph(<<Strong_s>>)>>) }

\* "# Title\n## Sub\nBold **word** here."
ScenarioDocument ==
    DocumentOf(<<Heading(1, <<RawText(<<"T", "i", "t", "l", "e">>)>>),
                 Heading(2, <<RawText(<<"S", "u", "b">>)>>),
                 Paragraph(<<RawText(<<"B", "o", "l", "d", " ">>),
                             Strong(<<RawText(<<"w", "o", "r", "d">>)>>),
                             RawText(<<" ", "h", "e", "r", "e", ".">>)>>)>>)

EmphasisDocuments ==
    { DocumentOf(b) : b \in UNION { [1..n -> EmphasisBlocks] : n \in 0..MaxEmphBlocks } }
    \cup {ScenarioDocument}

EmphasisArgs ==
    [ type : {"all", "bold", "italic"},
      heading_filter : {None, Some(<<>>), Some(<<"a">>), Some(<<"B">>)} ]

InitEmphasized ==
    /\ op = "emphasized"
    /\ pc = "walk"
    /\ document \in EmphasisDocuments
    /\ args \in EmphasisArgs
    /\ headings = <<>>
    /\ heading_stack = <<>>
    /\ emphasized_items = <<>>
    /\ pending = document.children
    /\ visited = <<>>
    /\ content = <<>>
    /\ matches = <<>>
    /\ error = None
    /\ CliIdle

\* one call of _process_token, up to the point where it recurses
_process_token ==
    /\ op = "emphasized"
    /\ pc = "walk"
    /\ pending # <<>>
    /\ LET st == ProcessToken(heading_stack, emphasized_items, Head(pending), args)
       IN  /\ heading_stack' = st.stack
           /\ emphasized_items' = st.items
    /\ pending' = PendingAfter(pending)
    /\ visited' = Append(visited, Head(pending))
    /\ UNCHANGED <<op, pc, document, args, headings, content, matches, error, cliVars>>

\* return emphasized_items
ReturnEmphasized ==
    /\ op = "emphasized"
    /\ pc = "walk"
    /\ pending = <<>>
    /\ pc' = "done"
    /\ UNCHANGED <<op, document, args, headings, heading_stack, emphasized_items,
                   pending, visited, content, matches, error, cliVars>>

NextEmphasized == _process_token \/ ReturnEmphasized

SpecEmphasized == InitEmphasized /\ [][NextEmphasized]_vars

EmphasizedDone == op = "emphasized" /\ pc = "done"

IsSpan(token) == token.kind \in {"Strong", "Emphasis"}

\* a _process_token call that appended a record
Emitted == Len(emphasized_items') = Len(emphasized_items) + 1

NoHeadingVisited == \A k \in 1..Len(visited) : visited[k].kind # "Heading"

\* C4: every emitted record has heading_context equal to the text of the top
\* entry of the heading stack at the moment the span is visited, and it is
\* absent exactly when the stack is empty, which is when no heading was visited
\* before the span; the scenario document with kind=bold yields the single
\* record {bold, "word", "Sub"}.
C4_ContextIsTopOfStack ==
    [][ /\ (Emitted /\ IsSpan(Head(pending))) =>
            LET r == emphasized_items'[Len(emphasized_items')]
            IN  /\ heading_stack' = heading_stack
                /\ heading_stack # <<>> =>
                       r.heading_context = <<heading_stack[Len(heading_stack)].text>>
                /\ (r.heading_context = None) <=> (heading_stack = <<>>)
                /\ (heading_stack = <<>>) <=> NoHeadingVisited
        /\ (EmphasizedDone' /\ document = ScenarioDocument /\ args.type = "bold"
                /\ args.heading_filter = None) =>
            emphasized_items' =
                <<[type |-> "bold", text |-> <<"w", "o", "r", "d">>,
                   heading_context |-> <<(<<"S", "u", "b">>)>>]>>
      ]_vars

\* a finished call whose first record carries no context and whose last one
\* carries the context of a heading nested below another one
C4_Witness ==
    /\ EmphasizedDone
    /\ Len(emphasized_items) >= 2
    /\ emphasized_items[1].heading_context = None
    /\ emphasized_items[Len(emphasized_items)].heading_context # None
    /\ Len(heading_stack) >= 2

\* the span kinds a call with this type asks for
PermittedKind(token) ==
    \/ token.kind = "Strong" /\ args.type \in {"all", "bold"}
    \/ token.kind = "Emphasis" /\ args.type \in {"all", "italic"}

FilterText == Lower(Val(args.heading_filter))

FilterGiven == args.heading_filter # None /\ Val(args.heading_filter) # <<>>

\* C5: with a non-empty heading_filter a span of a permitted kind is emitted iff
\* the filter, compared case-insensitively, is a substring of the text of some
\* entry on the heading stack (any entry, not only the top); hence every
\* emitted record has a heading_context.
C5_FilterAnyStackEntry ==
    [][ (FilterGiven /\ pending # <<>>) =>
            /\ PermittedKind(Head(pending)) =>
                  (Emitted <=>
                      \E k \in 1..Len(heading_stack) :
                          Contains(Lower(heading_stack[k].text), FilterText))
            /\ ~PermittedKind(Head(pending)) => ~Emitted
            /\ \A k \in 1..Len(emphasized_items') :
                  emphasized_items'[k].heading_context # None
      ]_vars

\* a filtered call that emitted a span under a sub-heading which does not match
\* itself but lies below a matching heading, and has since left that branch and
\* visited a span there without emitting it
C5_Witness ==
    /\ op = "emphasized"
    /\ FilterGiven
    /\ \E k \in 1..Len(emphasized_items) :
          /\ emphasized_items[k].heading_context # None
          /\ ~Contains(Lower(Val(emphasized_items[k].heading_context)), FilterText)
    /\ \E k \in 1..Len(visited) :
          /\ PermittedKind(visited[k])
          /\ \A m \in 1..Len(heading_stack) :
                ~Contains(Lower(heading_stack[m].text), FilterText)
          /\ \A m \in (k + 1)..Len(visited) : visited[m].kind # "Heading"
          /\ \E m \in 1..(k - 1) : visited[m].kind = "Heading"

ItemsOfAll == extract_emphasized(document, [args EXCEPT !.type = "all"])

IsBoldItem(r) == r.type = "bold"
IsItalicItem(r) == r.type = "italic"

SpanKind(token) == IF token.kind = "Strong" THEN "bold" ELSE "italic"

VisitedSpanKinds ==
    LET spans == SelectSeq(visited, IsSpan)
    IN  [k \in 1..Len(spans) |-> SpanKind(spans[k])]

ItemKinds == [k \in 1..Len(emphasized_items) |-> emphasized_items[k].type]

\* C6: kind=bold returns only bold records and equals the bold sub-sequence of
\* the kind=all result; kind=italic likewise for italic; kind=all holds both
\* kinds in document order.
C6_KindSelectsSubsequence ==
    EmphasizedDone =>
        /\ args.type = "bold" =>
              /\ \A k \in 1..Len(emphasized_items) : emphasized_items[k].type = "bold"
              /\ emphasized_items = SelectSeq(ItemsOfAll, IsBoldItem)
        /\ args.type = "italic" =>
              /\ \A k \in 1..Len(emphasized_items) : emphasized_items[k].type = "italic"
              /\ emphasized_items = SelectSeq(ItemsOfAll, IsItalicItem)
        /\ args.type = "all" =>
              /\ IsSubsequence(ItemKinds, VisitedSpanKinds)
              /\ ~FilterGiven => ItemKinds = VisitedSpanKinds

\* a kind=bold call, with a filter, on a document whose kind=all result has
\* both kinds with an italic record before a bold one
C6_Witness ==
    /\ EmphasizedDone
    /\ args.type = "bold"
    /\ FilterGiven
    /\ Len(emphasized_items) >= 1
    /\ \E j, k \in 1..Len(ItemsOfAll) :
          j < k /\ ItemsOfAll[j].type = "italic" /\ ItemsOfAll[k].type = "bold"

\* the scenario call has run to its end
C4_ScenarioRan ==
    /\ EmphasizedDone
    /\ document = ScenarioDocument
    /\ args.type = "bold"
    /\ args.heading_filter = None
    /\ Len(emphasized_items) = 1

-----------------------------------------------------------------------------
(* find_and_extract *)

\* len(s) - len(s.lstrip("#"))
RECURSIVE LeadingHashes(_)
LeadingHashes(s) ==
    IF s # <<>> /\ Head(s) = "#" THEN 1 + LeadingHashes(Tail(s)) ELSE 0

\* section_pattern.match(stripped_line), for
\* section_pattern = ^#+\s+<re.escape(within_section)>\s*$ with re.IGNORECASE
SectionPatternMatch(stripped_line, within_section) ==
    \E h \in 1..Len(stripped_line) : \E w \in 1..Len(stripped_line) :
        LET n == Len(within_section)
        IN  /\ h + w + n <= Len(stripped_line)
            /\ \A k \in 1..h : stripped_line[k] = "#"
            /\ \A k \in (h + 1)..(h + w) : stripped_line[k] \in Whitespace
            /\ Lower(SubSeq(stripped_line, h + w + 1, h + w + n)) = Lower(within_section)
            /\ \A k \in (h + w + n + 1)..Len(stripped_line) :
                  stripped_line[k] \in Whitespace

RECURSIVE SectionEndFromShallower(_, _, _)
SectionEndFromShallower(lines, from, heading_level) ==
    IF from >= Len(lines) THEN Len(lines)
    ELSE LET next_stripped == Strip(lines[from + 1])
         IN  IF /\ next_stripped # <<>>
                /\ Head(next_stripped) = "#"
                /\ LeadingHashes(next_stripped) < heading_level
             THEN from
             ELSE SectionEndFromShallower(lines, from + 1, heading_level)

\* the inner loop: the first j >= from whose stripped line starts with "#" with
\* a "#" run no longer than heading_level, or len(lines)
RECURSIVE SectionEndFrom(_, _, _)
SectionEndFrom(lines, from, heading_level) ==
    IF from >= Len(lines) THEN Len(lines)
    ELSE LET next_stripped == Strip(lines[from + 1])
         IN  IF /\ next_stripped # <<>>
                /\ Head(next_stripped) = "#"
                /\ LeadingHashes(next_stripped) <= heading_level
             THEN from
             ELSE SectionEndFrom(lines, from + 1, heading_level)

\* the outer loop, from 0-based line i on: [start, end] of the first line that
\* is a heading line of the section, both None when there is none
RECURSIVE SectionFrom(_, _, _)
SectionFrom(lines, i, within_section) ==
    IF i >= Len(lines) THEN [start |-> None, end |-> None]
    ELSE LET stripped_line == Strip(lines[i + 1])
         IN  IF SectionPatternMatch(stripped_line, within_section)
             THEN [start |-> Some(i),
                   end |-> Some(SectionEndFrom(lines, i + 1,
                                               LeadingHashes(stripped_line)))]
             ELSE SectionFrom(lines, i + 1, within_section)

\* section_start, section_end as the scan loop finds them
ResolveSection(lines, within_section) ==
    IF TruthyStr(within_section)
    THEN SectionFrom(lines, 0, Val(within_section))
    ELSE [start |-> None, end |-> None]

RegexCompilesAnything(pattern) == TRUE

\* re.compile(pattern, flags) succeeds. The patterns of the model are made of
\* literal characters, "." and "[": a "[" that no "]" closes is a syntax error.
RegexCompiles(pattern) == \A k \in 1..Len(pattern) : pattern[k] # "["

CharMatchesLineFolded(p, c, case_sensitive) ==
    \/ p = "."
    \/ IF case_sensitive THEN p = c ELSE p = LowerChar(c)

\* one pattern character against one character of the line
CharMatches(p, c, case_sensitive) ==
    \/ p = "."
    \/ IF case_sensitive THEN p = c ELSE LowerChar(p) = LowerChar(c)

\* the pattern matches the line at 0-based offset k
MatchesAt(pattern, case_sensitive, line, k) ==
    /\ k + Len(pattern) <= Len(line)
    /\ \A j \in 1..Len(pattern) : CharMatches(pattern[j], line[k + j], case_sensitive)

\* regex.search(line) is not None
RegexSearch(pattern, case_sensitive, line) ==
    \E k \in 0..Len(line) : MatchesAt(pattern, case_sensitive, line, k)

MatchedTextLast(pattern, case_sensitive, line) ==
    LET k == CHOOSE k \in 0..Len(line) :
                 /\ MatchesAt(pattern, case_sensitive, line, k)
                 /\ \A m \in (k + 1)..Len(line) : ~MatchesAt(pattern, case_sensitive, line, m)
    IN  SubSeq(line, k + 1, k + Len(pattern))

\* regex.search(line).group(0): the leftmost match
MatchedText(pattern, case_sensitive, line) ==
    LET k == CHOOSE k \in 0..Len(line) :
                 /\ MatchesAt(pattern, case_sensitive, line, k)
                 /\ \A m \in 0..(k - 1) : ~MatchesAt(pattern, case_sensitive, line, m)
    IN  SubSeq(line, k + 1, k + Len(pattern))

InScopeEndInclusive(i, a, section) ==
    ~(/\ TruthyStr(a.within_section)
      /\ section.start # None
      /\ (i < Val(section.start) \/ (section.end # None /\ i > Val(section.end))))

InScopeOnlyIfFound(i, a, section) ==
    IF TruthyStr(a.within_section)
    THEN /\ section.start # None
         /\ i >= Val(section.start)
         /\ i < Val(section.end)
    ELSE TRUE

\* the scan loop does not skip line i
InScope(i, a, section) ==
    ~(/\ TruthyStr(a.within_section)
      /\ section.start # None
      /\ (i < Val(section.start) \/ (section.end # None /\ i >= Val(section.end))))

ContextLinesShort(lines, i, lines_before, lines_after) ==
    Slice(lines, Max(0, i - lines_before), Min(Len(lines), i + lines_after))

\* context_lines = lines[max(0, i - lines_before):min(len(lines), i + 1 + lines_after)]
ContextLines(lines, i, lines_before, lines_after) ==
    Slice(lines, Max(0, i - lines_before), Min(Len(lines), i + 1 + lines_after))

\* s.rstrip("\n")
RECURSIVE RStripNewlines(_)
RStripNewlines(s) ==
    IF s # <<>> /\ s[Len(s)] = "\n" THEN RStripNewlines(SubSeq(s, 1, Len(s) - 1)) ELSE s

MatchRecordWithinSection(lines, i, a) ==
    LET section == ResolveSection(lines, a.within_section)
        lo == IF section.start # None THEN Val(section.start) ELSE 0
        hi == IF section.start # None THEN Val(section.end) ELSE Len(lines)
        context_lines == Slice(lines, Max(lo, i - a.lines_before),
                               Min(hi, i + 1 + a.lines_after))
    IN  [match |-> MatchedText(a.pattern, a.case_sensitive, lines[i + 1]),
         line_number |-> i + 1,
         context |-> RStripNewlines(JoinLines(context_lines)),
         context_lines |-> context_lines]

\* the record appended for a match on 0-based line i
MatchRecord(lines, i, a) ==
    LET context_lines == ContextLines(lines, i, a.lines_before, a.lines_after)
    IN  [match |-> MatchedText(a.pattern, a.case_sensitive, lines[i + 1]),
         line_number |-> i + 1,
         context |-> RStripNewlines(JoinLines(context_lines)),
         context_lines |-> context_lines]

\* for i, line in enumerate(lines), from 0-based line i on
RECURSIVE ScanFrom(_, _, _, _)
ScanFrom(lines, i, a, section) ==
    IF i >= Len(lines) THEN <<>>
    ELSE (IF InScope(i, a, section) /\ RegexSearch(a.pattern, a.case_sensitive, lines[i + 1])
          THEN <<MatchRecord(lines, i, a)>> ELSE <<>>)
         \o ScanFrom(lines, i + 1, a, section)

\* raise ValueError(f"Invalid regex pattern: {pattern}. Error: {e}"): the
\* exception with the pattern and the re.error its message quotes
PatternError(pattern) ==
    [type |-> "ValueError", pattern |-> pattern, cause |-> "re.error"]

\* the outcome of a call: the ValueError of an invalid pattern, or the list
find_and_extract(text, a) ==
    LET lines == SplitLines(text)
        section == ResolveSection(lines, a.within_section)
    IN  IF ~RegexCompiles(a.pattern)
        THEN [raised |-> TRUE, matches |-> <<>>, error |-> Some(PatternError(a.pattern))]
        ELSE [raised |-> FALSE, matches |-> ScanFrom(lines, 0, a, section),
              error |-> None]

-----------------------------------------------------------------------------
(* Inputs of the search runs *)

TextLines ==
    { <<"#", " ", "A">>,
      <<"#", "#", " ", "b">>,
      <<" ", "#", " ", "a">>,
      <<"#", "t">>,
      <<"a", "A">>,
      <<>> }

Texts == { JoinLines(l) : l \in UNION { [1..n -> TextLines] : n \in 0..MaxLines } }

FindArgs ==
    [ pattern : {<<"a">>, <<"A", ".">>, <<>>, <<"[">>},
      lines_before : {0, 1, 2},
      lines_after : {0, 1, 2},
      case_sensitive : BOOLEAN,
      within_section : {None, Some(<<"A">>), Some(<<"b">>), Some(<<"z">>)} ]

\* "# A\nx\n## B\ny Term z\n# C", searched for "Term" within section "A"
ScenarioText ==
    JoinLines(<< <<"#", " ", "A">>, <<"x">>, <<"#", "#", " ", "B">>,
                 <<"y", " ", "T", "e", "r", "m", " ", "z">>, <<"#", " ", "C">> >>)

ScenarioArgs ==
    [ pattern : {<<"T", "e", "r", "m">>},
      lines_before : {0},
      lines_after : {0},
      case_sensitive : BOOLEAN,
      within_section : {Some(<<"A">>)} ]

InitFind ==
    /\ op = "find"
    /\ pc = "start"
    /\ \/ content \in Texts /\ args \in FindArgs
       \/ content = ScenarioText /\ args \in ScenarioArgs
    /\ document = NoDocument
    /\ headings = <<>>
    /\ heading_stack = <<>>
    /\ emphasized_items = <<>>
    /\ pending = <<>>
    /\ visited = <<>>
    /\ matches = <<>>
    /\ error = None
    /\ CliIdle

\* results = find_and_extract(content, pattern=..., ...)
FindAndExtract ==
    /\ op = "find"
    /\ pc = "start"
    /\ LET out == find_and_extract(content, args)
       IN  /\ matches' = out.matches
           /\ error' = out.error
           /\ pc' = IF out.raised THEN "raised" ELSE "done"
    /\ UNCHANGED <<op, document, args, headings, heading_stack, emphasized_items,
                   pending, visited, content, cliVars>>

NextFind == FindAndExtract

SpecFind == InitFind /\ [][NextFind]_vars

FindDone == op = "find" /\ pc = "done"

FindLines == SplitLines(content)

FoundSection == ResolveSection(FindLines, args.within_section)

LineNumbers == [k \in 1..Len(matches) |-> matches[k].line_number]

\* the pattern occurs somewhere on 0-based line i
LineMatches(i) ==
    \E o \in 0..Len(FindLines[i + 1]) :
        MatchesAt(args.pattern, args.case_sensitive, FindLines[i + 1], o)

\* C7: when within_section resolves to a section [s, e), every match has
\* s + 1 <= line_number <= e; in every call 1 <= line_number <= number of
\* lines; the scenario text yields the bound [0, 4) and the one match on line 4.
C7_MatchesWithinSection ==
    FindDone =>
        /\ FoundSection.start # None =>
              \A k \in 1..Len(matches) :
                  /\ Val(FoundSection.start) + 1 <= matches[k].line_number
                  /\ matches[k].line_number <= Val(FoundSection.end)
        /\ \A k \in 1..Len(matches) :
              1 <= matches[k].line_number /\ matches[k].line_number <= Len(FindLines)
        /\ content = ScenarioText =>
              /\ FoundSection = [start |-> <<0>>, end |-> <<4>>]
              /\ LineNumbers = <<4>>

\* a scoped call with a match, on a text where the pattern also occurs before
\* the section heading and on the heading line that ends the section
C7_Witness ==
    /\ FindDone
    /\ FoundSection.start # None
    /\ Len(matches) >= 1
    /\ Val(FoundSection.start) > 0
    /\ Val(FoundSection.end) < Len(FindLines)
    /\ \E i \in 0..(Val(FoundSection.start) - 1) : LineMatches(i)
    /\ LineMatches(Val(FoundSection.end))

\* the scenario search has run
C7_ScenarioRan == FindDone /\ content = ScenarioText /\ Len(matches) = 1

\* C8: context_lines of a match on 0-based line i is the contiguous slice
\* lines[max(0, i - lines_before) : min(N, i + 1 + lines_after)]; it holds the
\* matched line, has length min(i, before) + 1 + min(N - 1 - i, after), and is
\* the matched line alone when before = after = 0.
C8_ContextWindow ==
    FindDone =>
        \A k \in 1..Len(matches) :
            LET i == matches[k].line_number - 1
                n == Len(FindLines)
                b == args.lines_before
                a == args.lines_after
                lo == IF i - b > 0 THEN i - b ELSE 0
                hi == IF i + 1 + a < n THEN i + 1 + a ELSE n
                ctx == matches[k].context_lines
            IN  /\ Len(ctx) = hi - lo
                /\ \A j \in 1..Len(ctx) : ctx[j] = FindLines[lo + j]
                /\ ctx[i - lo + 1] = FindLines[i + 1]
                /\ Len(ctx) = (IF i < b THEN i ELSE b) + 1
                              + (IF n - 1 - i < a THEN n - 1 - i ELSE a)
                /\ (b = 0 /\ a = 0) => ctx = <<FindLines[i + 1]>>

\* a match with lines before and after it whose window is cut both at the
\* start and at the end of the text
C8_Witness ==
    /\ FindDone
    /\ \E k \in 1..Len(matches) :
          LET i == matches[k].line_number - 1
          IN  /\ 1 <= i
              /\ i < args.lines_before
              /\ 1 <= Len(FindLines) - 1 - i
              /\ Len(FindLines) - 1 - i < args.lines_after
              /\ Len(matches[k].context_lines) = Len(FindLines)

\* line i may be searched: no section was resolved, or i lies in it
InSectionOrUnscoped(i) ==
    \/ FoundSection.start = None
    \/ Val(FoundSection.start) <= i /\ i < Val(FoundSection.end)

\* C9: exactly one record for each in-scope line on which the pattern matches,
\* none for other lines; the matched text is the leftmost match on the line;
\* line numbers are strictly ascending; nearby matches are reported separately.
C9_OneRecordPerMatchingLine ==
    FindDone =>
        /\ \A k \in 1..(Len(matches) - 1) :
              matches[k].line_number < matches[k + 1].line_number
        /\ {matches[k].line_number : k \in 1..Len(matches)} =
              {i + 1 : i \in {j \in 0..(Len(FindLines) - 1) :
                                  InSectionOrUnscoped(j) /\ LineMatches(j)}}
        /\ \A k \in 1..Len(matches) :
              LET line == FindLines[matches[k].line_number]
              IN  \E o \in 0..Len(line) :
                      /\ MatchesAt(args.pattern, args.case_sensitive, line, o)
                      /\ \A m \in 0..(o - 1) :
                            ~MatchesAt(args.pattern, args.case_sensitive, line, m)
                      /\ matches[k].match = SubSeq(line, o + 1, o + Len(args.pattern))

\* a call with matches on two adjacent lines whose context windows overlap, the
\* first on a line where the pattern occurs twice with different matched texts
C9_Witness ==
    /\ FindDone
    /\ Len(matches) >= 2
    /\ matches[2].line_number = matches[1].line_number + 1
    /\ args.lines_after >= 1
    /\ args.lines_before >= 1
    /\ LET line == FindLines[matches[1].line_number]
       IN  /\ matches[1].match # line
           /\ \E o \in 1..Len(line) :
                 /\ MatchesAt(args.pattern, args.case_sensitive, line, o)
                 /\ SubSeq(line, o + 1, o + Len(args.pattern)) # matches[1].match

SectionGiven == args.within_section # None /\ Val(args.within_section) # <<>>

NoHeadingLineForSection ==
    \A i \in 1..Len(FindLines) :
        ~SectionPatternMatch(Strip(FindLines[i]), Val(args.within_section))

WithoutSection == find_and_extract(content, [args EXCEPT !.within_section = None])

\* C10: when within_section is given and no line is a heading line for it, the
\* call fails only if the same call without within_section fails, and returns
\* the list that call returns.
C10_SectionNotFoundSearchesAll ==
    (op = "find" /\ pc # "start" /\ SectionGiven /\ NoHeadingLineForSection) =>
        /\ (pc = "raised") <=> WithoutSection.raised
        /\ matches = WithoutSection.matches

\* a call naming a section the text does not have, on a text that has other
\* headings, which returned matches
C10_Witness ==
    /\ FindDone
    /\ SectionGiven
    /\ NoHeadingLineForSection
    /\ Len(matches) >= 2
    /\ \E i \in 1..Len(FindLines) : LeadingHashes(Strip(FindLines[i])) >= 1

Letters == {UpperLetters[k] : k \in 1..26} \cup {LowerLetters[k] : k \in 1..26}

\* str.upper() on one character
UpperChar(c) ==
    IF \E k \in 1..26 : LowerLetters[k] = c
    THEN UpperLetters[CHOOSE k \in 1..26 : LowerLetters[k] = c]
    ELSE c

\* the patterns that differ from p only in letter case
CaseVariants(p) ==
    { [k \in 1..Len(p) |-> IF mask[k] THEN UpperChar(p[k]) ELSE LowerChar(p[k])] :
        mask \in [1..Len(p) -> BOOLEAN] }

LettersOnly(p) == p # <<>> /\ \A k \in 1..Len(p) : p[k] \in Letters

MatchesFor(q) == find_and_extract(content, [args EXCEPT !.pattern = q]).matches

\* C11: with case_sensitive = False, patterns made only of letters that differ
\* only in letter case yield the same number of matches on the same line
\* numbers.
C11_CaseInsensitivePatterns ==
    (FindDone /\ ~args.case_sensitive /\ LettersOnly(args.pattern)) =>
        \A q \in CaseVariants(args.pattern) :
            /\ Len(MatchesFor(q)) = Len(matches)
            /\ [k \in 1..Len(MatchesFor(q)) |-> MatchesFor(q)[k].line_number] = LineNumbers

\* a case-insensitive search for a letter that matched a line holding it only
\* in the other case
C11_Witness ==
    /\ FindDone
    /\ ~args.case_sensitive
    /\ LettersOnly(args.pattern)
    /\ Cardinality(CaseVariants(args.pattern)) >= 2
    /\ \E k \in 1..Len(matches) :
          /\ matches[k].match # args.pattern
          /\ ~Contains(FindLines[matches[k].line_number], args.pattern)

\* C12: a call with a syntactically invalid regex raises the pattern error, a
\* ValueError carrying the pattern and the regex parser's error, and returns no
\* list, whatever the text and the other parameters.
C12_InvalidRegexRaises ==
    (op = "find" /\ pc # "start" /\ \E k \in 1..Len(args.pattern) : args.pattern[k] = "[") =>
        /\ pc = "raised"
        /\ pc # "done"
        /\ matches = <<>>
        /\ error = <<[type |-> "ValueError", pattern |-> args.pattern, cause |-> "re.error"]>>

\* an invalid pattern given with a section that the text has, on a text whose
\* lines a valid pattern would match
C12_Witness ==
    /\ op = "find"
    /\ pc = "raised"
    /\ SectionGiven
    /\ FoundSection.start # None
    /\ Len(FindLines) >= 2
    /\ error # None

-----------------------------------------------------------------------------
(* format_output (utils.py) *)

Digits == <<"0", "1", "2", "3", "4", "5", "6", "7", "8", "9">>

\* the character U+0060, which a TLA+ string literal cannot hold
Backtick == "backtick"

\* str(n) for n >= 0
RECURSIVE IntToStr(_)
IntToStr(n) ==
    IF n < 10 THEN <<Digits[n + 1]>> ELSE IntToStr(n \div 10) \o <<Digits[(n % 10) + 1]>>

\* json.dumps(obj, indent=2, ensure_ascii=False): the JSON text, given by the
\* object it serialises
JsonDumps(obj) == [json |-> obj]

JsonStatusAlwaysSuccess(res) == "success"

\* "success" if results else "no_matches"
JsonStatus(res) == IF res # <<>> THEN "success" ELSE "no_matches"

format_json_output(res, operation_, file_path, parameters_) ==
    JsonDumps([operation |-> operation_,
               file |-> file_path,
               parameters |-> parameters_,
               results |-> res,
               count |-> Len(res),
               status |-> JsonStatus(res)])

\* "**" if item["type"] == "bold" else "*"
EmphasisPrefix(item) == IF item.type = "bold" THEN <<"*", "*">> ELSE <<"*">>

\* item.get("heading_context") is truthy
HasContext(item) == TruthyStr(item.heading_context)

\* the lines one search match adds to the plain text output
TextMatchLines(item) ==
    <<<<"L", "i", "n", "e", " ">> \o IntToStr(item.line_number) \o <<":", " ">> \o item.match>>
    \o (IF item.context # <<>>
        THEN <<<<"C", "o", "n", "t", "e", "x", "t", ":", "\n">> \o item.context, <<>>>>
        ELSE <<>>)

\* the lines one result adds to the plain text output
TextLinesOf(item, operation_) ==
    IF operation_ = "extract_headings"
    THEN <<Repeat(" ", 2 * (item.level - 1)) \o item.text>>
    ELSE IF operation_ = "extract_emphasized"
    THEN <<EmphasisPrefix(item) \o item.text \o EmphasisPrefix(item)
           \o (IF HasContext(item)
               THEN <<" ", "(", "u", "n", "d", "e", "r", ":", " ">> \o Val(item.heading_context) \o <<")">>
               ELSE <<>>)>>
    ELSE IF operation_ = "find_and_extract"
    THEN TextMatchLines(item)
    ELSE <<>>

\* the lines one search match adds to the markdown output
MarkdownMatchLines(item) ==
    <<<<"*", "*", "M", "a", "t", "c", "h", " ", "o", "n", " ", "l", "i", "n", "e", " ">> \o IntToStr(item.line_number) \o <<":", "*", "*", " ", Backtick>> \o item.match \o <<Backtick>>>>
    \o (IF item.context # <<>>
        THEN <<<<Backtick, Backtick, Backtick>>, item.context, <<Backtick, Backtick, Backtick>>, <<>>>>
        ELSE <<>>)

\* the lines one result adds to the markdown output
MarkdownLinesOf(item, operation_) ==
    IF operation_ = "extract_headings"
    THEN <<item.raw>>
    ELSE IF operation_ = "extract_emphasized"
    THEN <<EmphasisPrefix(item) \o item.text \o EmphasisPrefix(item)
           \o (IF HasContext(item)
               THEN <<"\n", "*", "(", "u", "n", "d", "e", "r", ":", " ">> \o Val(item.heading_context) \o <<")", "*">>
               ELSE <<>>)>>
    ELSE IF operation_ = "find_and_extract"
    THEN MarkdownMatchLines(item)
    ELSE <<>>

format_text_output(res, operation_) ==
    JoinLines(Concat([k \in 1..Len(res) |-> TextLinesOf(res[k], operation_)]))

format_markdown_output(res, operation_) ==
    JoinLines(Concat([k \in 1..Len(res) |-> MarkdownLinesOf(res[k], operation_)]))

format_output(res, operation_, file_path, parameters_, output_format) ==
    IF output_format = "json"
    THEN format_json_output(res, operation_, file_path, parameters_)
    ELSE IF output_format = "text"
    THEN format_text_output(res, operation_)
    ELSE format_markdown_output(res, operation_)

-----------------------------------------------------------------------------
(* main (cli.py): one invocation of the command line *)

\* choices=range(1, 7) on --headings: argparse rejects any other value
HeadingChoice(level) == level \in 1..6

FileRejectedOnlyMissing(file_state) == file_state = "missing"

\* validate_file raises for a missing path, a non-file and an unreadable file
FileRejected(file_state) == file_state \in {"missing", "not_file", "unreadable"}

\* validate_heading_level: 1 <= level <= 6
ValidHeadingLevel(level) == 1 <= level /\ level <= 6

\* open(file, encoding="utf-8").read() raises UnicodeDecodeError, a ValueError
ReadFails(file_state) == file_state = "undecodable"

WantsEmphasized(a) == a.emphasized \/ a.emphasized_bold \/ a.emphasized_italic

emphasis_type(a) ==
    IF a.emphasized THEN "all" ELSE IF a.emphasized_bold THEN "bold" ELSE "italic"

\* the content options of --headings apply to the requested level
include_content_level(a) ==
    IF a.include_content_lines # None \/ a.include_content_chars # None
    THEN a.headings
    ELSE None

HeadingCallArgs(a) ==
    [max_level |-> Val(a.headings),
     include_content_for_level |-> include_content_level(a),
     include_content_lines |->
         IF include_content_level(a) # None THEN a.include_content_lines ELSE None,
     include_content_chars |->
         IF include_content_level(a) # None THEN a.include_content_chars ELSE None]

HeadingParameters(a) ==
    LET base == [max_level |-> Val(a.headings)]
        lvl == [include_content_for_level |-> Val(a.headings)]
        ln == [include_content_lines |-> Val(a.include_content_lines)]
        ch == [include_content_chars |-> Val(a.include_content_chars)]
    IN  IF ~TruthyInt(include_content_level(a)) THEN base
        ELSE IF a.include_content_lines # None /\ a.include_content_chars # None
        THEN base @@ lvl @@ ln @@ ch
        ELSE IF a.include_content_lines # None THEN base @@ lvl @@ ln
        ELSE base @@ lvl @@ ch

EmphasizedCallArgs(a) == [type |-> emphasis_type(a), heading_filter |-> a.emphasized_under]

FindCallArgs(a) ==
    [pattern |-> Val(a.find),
     lines_before |-> a.lines_before,
     lines_after |-> a.lines_after,
     case_sensitive |-> a.case_sensitive,
     within_section |-> a.within_section]

\* the files an invocation can name: the parsed document with its raw text
CliFiles ==
    { [document |-> NoDocument, content |-> <<>>],
      [document |-> DocumentOf(<<Heading(1, <<RawText(<<"A">>)>>),
                                 Paragraph(<<RawText(<<"a", "A", " ">>),
                                             Strong(<<RawText(<<"s">>)>>)>>)>>),
       content |-> JoinLines(<< <<"#", " ", "A">>, <<>>,
                                <<"a", "A", " ", "*", "*", "s", "*", "*">> >>)],
      [document |-> DocumentOf(<<Heading(2, <<RawText(<<"b">>)>>),
                                 Paragraph(<<RawText(<<"x">>)>>)>>),
       content |-> JoinLines(<< <<"#", "#", " ", "b">>, <<>>, <<"x">> >>)] }

CliEnvs ==
    [file_state : {"ok", "missing", "not_file", "unreadable", "undecodable"},
     file : CliFiles,
     output_writable : BOOLEAN]

EmphasisFlags == { <<FALSE, FALSE, FALSE>>, <<TRUE, FALSE, FALSE>>,
                   <<FALSE, TRUE, FALSE>>, <<FALSE, FALSE, TRUE>> }

CliArgs ==
    { [file |-> <<"d", ".", "m", "d">>,
       headings |-> h,
       include_content_lines |-> l,
       include_content_chars |-> None,
       emphasized |-> e[1],
       emphasized_bold |-> e[2],
       emphasized_italic |-> e[3],
       emphasized_under |-> None,
       find |-> f,
       lines_before |-> 0,
       lines_after |-> 0,
       case_sensitive |-> FALSE,
       within_section |-> None,
       output |-> o,
       format |-> fmt] :
      h \in {None, Some(0), Some(1), Some(7)},
      l \in {None, Some(1)},
      e \in EmphasisFlags,
      f \in {None, Some(<<>>), Some(<<"a">>), Some(<<"[">>)},
      o \in {None, Some(<<"o">>)},
      fmt \in {"markdown", "text", "json"} }

InitCli ==
    /\ op = "cli"
    /\ pc = "parse_args"
    /\ args \in CliArgs
    /\ env \in { Some(e) : e \in CliEnvs }
    /\ document = NoDocument
    /\ content = <<>>
    /\ headings = <<>>
    /\ heading_stack = <<>>
    /\ emphasized_items = <<>>
    /\ pending = <<>>
    /\ visited = <<>>
    /\ matches = <<>>
    /\ error = None
    /\ results = <<>>
    /\ operation = None
    /\ parameters = None
    /\ output = None
    /\ stdout = <<>>
    /\ out_file = None
    /\ exit_code = None
    /\ failure = None
    /\ trace = <<>>

\* what no step of main touches
CliFrame ==
    UNCHANGED <<op, args, headings, heading_stack, emphasized_items, pending,
                visited, matches, error, env>>

\* the invocation ends with the error `kind`, after the calls `steps`
Fail(kind, code, steps) ==
    /\ failure' = Some(kind)
    /\ exit_code' = Some(code)
    /\ trace' = trace \o steps
    /\ pc' = "exit"

\* args = parser.parse_args(): a --headings value outside choices is a usage
\* error, which argparse reports by exiting with status 2
ParseArgs ==
    /\ op = "cli"
    /\ pc = "parse_args"
    /\ IF args.headings # None /\ ~HeadingChoice(Val(args.headings))
       THEN Fail("usage", 2, <<"parse_args">>)
       ELSE /\ pc' = "validate_file"
            /\ trace' = Append(trace, "parse_args")
            /\ UNCHANGED <<exit_code, failure>>
    /\ UNCHANGED <<document, content, results, operation, parameters, output,
                   stdout, out_file>>
    /\ CliFrame

\* validate_file(args.file), and the except clause around it
ValidateFile ==
    /\ op = "cli"
    /\ pc = "validate_file"
    /\ IF FileRejected(Val(env).file_state)
       THEN Fail("file", 1, <<"validate_file">>)
       ELSE /\ pc' = "operation"
            /\ trace' = Append(trace, "validate_file")
            /\ UNCHANGED <<exit_code, failure>>
    /\ UNCHANGED <<document, content, results, operation, parameters, output,
                   stdout, out_file>>
    /\ CliFrame

\* the operation finished: its results, name and parameters are recorded
Finish(res, name, params, steps) ==
    /\ results' = res
    /\ operation' = Some(name)
    /\ parameters' = Some(params)
    /\ trace' = trace \o steps
    /\ pc' = "report"
    /\ UNCHANGED <<exit_code, failure>>

\* if args.headings is not None: ...
RunHeadings ==
    /\ op = "cli"
    /\ pc = "operation"
    /\ args.headings # None
    /\ IF ~ValidHeadingLevel(Val(args.headings))
       THEN /\ Fail("value", 1, <<"validate_heading_level">>)
            /\ UNCHANGED <<document, results, operation, parameters>>
       ELSE IF ReadFails(Val(env).file_state)
       THEN /\ Fail("value", 1, <<"validate_heading_level", "parse_markdown_file">>)
            /\ UNCHANGED <<document, results, operation, parameters>>
       ELSE /\ document' = Val(env).file.document
            /\ Finish(extract_headings(Val(env).file.document, HeadingCallArgs(args)),
                      "extract_headings", HeadingParameters(args),
                      <<"validate_heading_level", "parse_markdown_file",
                        "extract_headings">>)
    /\ UNCHANGED <<content, output, stdout, out_file>>
    /\ CliFrame

\* elif args.emphasized or args.emphasized_bold or args.emphasized_italic: ...
RunEmphasized ==
    /\ op = "cli"
    /\ pc = "operation"
    /\ args.headings = None
    /\ WantsEmphasized(args)
    /\ IF ReadFails(Val(env).file_state)
       THEN /\ Fail("value", 1, <<"parse_markdown_file">>)
            /\ UNCHANGED <<document, results, operation, parameters>>
       ELSE /\ document' = Val(env).file.document
            /\ Finish(extract_emphasized(Val(env).file.document, EmphasizedCallArgs(args)),
                      "extract_emphasized", EmphasizedCallArgs(args),
                      <<"parse_markdown_file", "extract_emphasized">>)
    /\ UNCHANGED <<content, output, stdout, out_file>>
    /\ CliFrame

\* elif args.find: ...
RunFind ==
    /\ op = "cli"
    /\ pc = "operation"
    /\ args.headings = None
    /\ ~WantsEmphasized(args)
    /\ TruthyStr(args.find)
    /\ IF ReadFails(Val(env).file_state)
       THEN /\ Fail("value", 1, <<"get_raw_content">>)
            /\ UNCHANGED <<content, results, operation, parameters>>
       ELSE LET found == find_and_extract(Val(env).file.content, FindCallArgs(args))
            IN  /\ content' = Val(env).file.content
                /\ IF found.raised
                   THEN /\ Fail("value", 1, <<"get_raw_content", "find_and_extract">>)
                        /\ UNCHANGED <<results, operation, parameters>>
                   ELSE Finish(found.matches, "find_and_extract", FindCallArgs(args),
                               <<"get_raw_content", "find_and_extract">>)
    /\ UNCHANGED <<document, output, stdout, out_file>>
    /\ CliFrame

\* else: error_msg("No operation specified. ..."); parser.print_help(); return 1
NoOperation ==
    /\ op = "cli"
    /\ pc = "operation"
    /\ args.headings = None
    /\ ~WantsEmphasized(args)
    /\ ~TruthyStr(args.find)
    /\ Fail("no_operation", 1, <<"print_help">>)
    /\ stdout' = Append(stdout, [kind |-> "help"])
    /\ UNCHANGED <<document, content, results, operation, parameters, output, out_file>>
    /\ CliFrame

PrintsOutputAlways(a) == TRUE

\* if args.output: write the file, else: print(output)
PrintsOutput(a) == ~TruthyStr(a.output)

\* what stdout holds once `text` went through the output stage
Printed(text) ==
    IF PrintsOutput(args)
    THEN Append(stdout, [kind |-> "results", text |-> text])
    ELSE stdout

\* with open(args.output, "w") as f: f.write(output), failing as `kind`, or
\* nothing to write; then return `code`
WriteOutput(text, kind, code) ==
    IF TruthyStr(args.output) /\ ~Val(env).output_writable
    THEN /\ Fail(kind, 1, <<"format_output", "write">>)
         /\ UNCHANGED out_file
    ELSE /\ out_file' = IF TruthyStr(args.output) THEN Some(text) ELSE out_file
         /\ exit_code' = Some(code)
         /\ pc' = "exit"
         /\ trace' = trace \o <<"format_output",
                                 IF TruthyStr(args.output) THEN "write" ELSE "print">>
         /\ UNCHANGED failure

FormatsEmptyAlways(output_format) == TRUE

\* if args.format == "json": still output JSON even if no matches
FormatsEmpty(output_format) == output_format = "json"

\* if not results: ... return 2
ReportNoMatches ==
    /\ op = "cli"
    /\ pc = "report"
    /\ results = <<>>
    /\ IF ~FormatsEmpty(args.format)
       THEN /\ exit_code' = Some(2)
            /\ pc' = "exit"
            /\ UNCHANGED <<output, stdout, out_file, failure, trace>>
       ELSE LET text == format_output(results, Val(operation), args.file,
                                      Val(parameters), args.format)
            IN  /\ output' = Some(text)
                /\ stdout' = Printed(text)
                /\ WriteOutput(text, "unexpected", 2)
    /\ UNCHANGED <<document, content, results, operation, parameters>>
    /\ CliFrame

\* output = format_output(...); write it to args.output or print it; return 0
ReportResults ==
    /\ op = "cli"
    /\ pc = "report"
    /\ results # <<>>
    /\ LET text == format_output(results, Val(operation), args.file,
                                 Val(parameters), args.format)
       IN  /\ output' = Some(text)
           /\ stdout' = Printed(text)
           /\ WriteOutput(text, "write", 0)
    /\ UNCHANGED <<document, content, results, operation, parameters>>
    /\ CliFrame

NextCli ==
    \/ ParseArgs
    \/ ValidateFile
    \/ RunHeadings
    \/ RunEmphasized
    \/ RunFind
    \/ NoOperation
    \/ ReportNoMatches
    \/ ReportResults

SpecCli == InitCli /\ [][NextCli]_vars

CliDone == op = "cli" /\ pc = "exit"

JsonFields == {"operation", "file", "parameters", "results", "count", "status"}

JsonWritten == op = "cli" /\ args.format = "json" /\ output # None

\* C13: the JSON output object has exactly the fields operation, file,
\* parameters, results, count and status; results is the result list in its
\* order, count is its length, status is "success" exactly when the list is
\* non-empty and "no_matches" otherwise, so zero results give "no_matches",
\* count 0 and results [].
C13_JsonObject ==
    JsonWritten =>
        LET obj == Val(output).json
        IN  /\ DOMAIN obj = JsonFields
            /\ obj.results = results
            /\ obj.count = Len(results)
            /\ obj.status \in {"success", "no_matches"}
            /\ obj.status = "success" <=> results # <<>>
            /\ results = <<>> =>
                   obj.status = "no_matches" /\ obj.count = 0 /\ obj.results = <<>>

C13_Witness ==
    /\ JsonWritten
    /\ Len(results) = 2
    /\ Val(output).json.count = 2
    /\ Val(output).json.status = "success"

\* the formatted results reached stdout or the output file
OutputWritten ==
    \/ \E k \in 1..Len(stdout) : stdout[k].kind = "results"
    \/ out_file # None

Errored == failure # None

\* C14: the exit code is 0 exactly when the operation produced at least one
\* result and the output was written, 2 exactly when it completed without
\* error with zero results, and 1 for every error; an error never yields 2 and
\* a no-match outcome never yields 1.
C14_ExitCodeDistinguishesOutcomes ==
    CliDone =>
        /\ exit_code = Some(0) <=> (~Errored /\ results # <<>> /\ OutputWritten)
        /\ exit_code = Some(2) <=> (~Errored /\ results = <<>>)
        /\ Errored => exit_code = Some(1)

\* outside argparse's own usage errors the three exit codes are as documented
ExitCodesAfterParseArgs ==
    (CliDone /\ failure # Some("usage")) =>
        /\ exit_code = Some(0) <=> (~Errored /\ results # <<>> /\ OutputWritten)
        /\ exit_code = Some(2) <=> (~Errored /\ results = <<>>)
        /\ Errored => exit_code = Some(1)

ResultsOnStdout == \E k \in 1..Len(stdout) : stdout[k].kind = "results"

\* C15: an invocation that ends in an error has written no formatted result
\* text to stdout at any point; result text reaches stdout only after the
\* extraction and the formatting both completed without error.
C15_NoResultsOnError ==
    op = "cli" =>
        /\ Errored => ~ResultsOnStdout
        /\ \A k \in 1..Len(stdout) :
               stdout[k].kind = "results" =>
                   /\ ~Errored
                   /\ operation # None
                   /\ output = Some(stdout[k].text)

C15_Witness ==
    /\ CliDone
    /\ failure = Some("write")
    /\ results # <<>>
    /\ output # None
    /\ stdout = <<>>

ParseOrExtractSteps ==
    {"parse_markdown_file", "get_raw_content", "extract_headings",
     "extract_emphasized", "find_and_extract"}

SourceUnusable == Val(env).file_state \in {"missing", "not_file", "unreadable"}

LevelOutOfRange == args.headings # None /\ Val(args.headings) \notin 1..6

\* C16: when the source file is missing, not a regular file or unreadable, or
\* the requested heading level is outside 1..6, the invocation fails before
\* any parse or extraction step: no such step ever occurs in it.
C16_ValidationPrecedesExtraction ==
    (op = "cli" /\ (SourceUnusable \/ LevelOutOfRange)) =>
        /\ \A k \in 1..Len(trace) : trace[k] \notin ParseOrExtractSteps
        /\ results = <<>>
        /\ document = NoDocument
        /\ CliDone => Errored

C16_Witness ==
    /\ CliDone
    /\ Val(env).file_state = "not_file"
    /\ args.headings = Some(1)
    /\ failure = Some("file")
    /\ trace = <<"parse_args", "validate_file">>

\* index of the first heading after index i (0-based) whose level is <= the level
\* of the heading at i, or the number of top-level nodes
ContentEnd(i) ==
    LET nodes == document.children
        closing == { k \in (i + 1)..(Len(nodes) - 1) :
                        /\ nodes[k + 1].kind = "Heading"
                        /\ nodes[k + 1].level <= nodes[i + 1].level }
    IN  IF closing = {} THEN Len(nodes)
        ELSE CHOOSE k \in closing : \A m \in closing : k <= m

\* the top-level node at index k (0-based) has body text to give
Contributes(k) ==
    LET node == document.children[k + 1]
    IN  /\ node.kind = "Paragraph" \/ node.children # <<>>
        /\ Strip(_extract_text_from_token(node)) # <<>>

\* the stripped texts of the contributing nodes at indices i < k < j, in order
RangeParts(i, j) ==
    LET idx == { k \in (i + 1)..(j - 1) : Contributes(k) }
        Nth(n) == CHOOSE k \in idx : Cardinality({ m \in idx : m < k }) = n - 1
    IN  [n \in 1..Cardinality(idx) |->
            Strip(_extract_text_from_token(document.children[Nth(n) + 1]))]

IncludeLevelIs(r) ==
    /\ args.include_content_for_level # None
    /\ r.level = Val(args.include_content_for_level)

LimitsGiven == args.include_content_lines # None \/ args.include_content_chars # None

\* C17: for a heading at index i whose level equals include_level, content is
\* collected only from the siblings at indices k with i < k < j, j being the
\* index of the first later heading of level <= the heading's level (or the
\* number of nodes); a deeper heading does not end the collection and nothing
\* at or after j contributes.
C17_ContentRange ==
    HeadingsDone =>
        \A k \in 1..Len(headings) :
            IncludeLevelIs(headings[k]) =>
                LET i == SelectedIndex(k)
                    parts == RangeParts(i, ContentEnd(i))
                    kept == IF LimitsGiven /\ parts # <<>>
                            THEN ApplyLimits(JoinLines(parts), args.include_content_lines,
                                             args.include_content_chars)
                            ELSE None
                IN  /\ CollectContentParts(document.children, i + 1, i) = parts
                    /\ headings[k].content = IF TruthyStr(kept) THEN kept ELSE None

\* the first section's content runs over its sub-heading and its paragraph and
\* stops at the sibling heading; the code block after it belongs to the sibling
C17_Witness ==
    /\ HeadingsDone
    /\ document = NestedSectionDocument
    /\ args.include_content_for_level = Some(1)
    /\ args.include_content_lines = Some(2)
    /\ Len(headings) = 2
    /\ ContentEnd(0) = 3
    /\ headings[1].content = Some(<<"b", " ", "c", "\n", "x">>)
    /\ headings[2].content = Some(<<"p", "\n", "q">>)

\* number of lines of a text: one more than its newlines
LineCount(s) == Cardinality({ n \in 1..Len(s) : s[n] = "\n" }) + 1

IsPrefix(s, t) == Len(s) <= Len(t) /\ s = SubSeq(t, 1, Len(s))

\* s is exactly the first n lines of t
IsFirstLines(s, t, n) ==
    /\ IsPrefix(s, t)
    /\ \/ s = t /\ LineCount(t) <= n
       \/ Len(s) < Len(t) /\ LineCount(s) = n /\ t[Len(s) + 1] = "\n"

\* s is exactly the first n characters of t
IsFirstChars(s, t, n) ==
    /\ IsPrefix(s, t)
    /\ Len(s) = IF Len(t) < n THEN Len(t) ELSE n

\* the newline-joined text collected for the heading at index i
JoinedContent(i) == JoinLines(RangeParts(i, ContentEnd(i)))

\* C18: when include_lines is set and > 0 the content is exactly the first
\* include_lines lines of the joined collected text, whatever include_chars
\* is; otherwise, when include_chars is set and > 0, it is exactly the first
\* include_chars characters; so content never exceeds the limit that applies.
C18_Truncation ==
    HeadingsDone =>
        \A k \in 1..Len(headings) :
            LET i == SelectedIndex(k)
                lines == args.include_content_lines
                chars == args.include_content_chars
            IN  (IncludeLevelIs(headings[k]) /\ RangeParts(i, ContentEnd(i)) # <<>>) =>
                    IF lines # None /\ Val(lines) > 0
                    THEN /\ headings[k].content # None
                         /\ IsFirstLines(Val(headings[k].content), JoinedContent(i), Val(lines))
                         /\ LineCount(Val(headings[k].content)) <= Val(lines)
                    ELSE IF chars # None /\ Val(chars) > 0
                    THEN /\ headings[k].content # None
                         /\ IsFirstChars(Val(headings[k].content), JoinedContent(i), Val(chars))
                         /\ Len(Val(headings[k].content)) <= Val(chars)
                    ELSE headings[k].content = None

\* both limits given: the one line kept is longer than include_chars
C18_Witness ==
    /\ HeadingsDone
    /\ document = NestedSectionDocument
    /\ args.include_content_for_level = Some(1)
    /\ args.include_content_lines = Some(1)
    /\ args.include_content_chars = Some(2)
    /\ JoinedContent(0) = <<"b", " ", "c", "\n", "x">>
    /\ Len(headings) = 2
    /\ headings[1].content = Some(<<"b", " ", "c">>)

StrictlyIncreasing(stack) ==
    \A n \in 1..(Len(stack) - 1) : stack[n].level < stack[n + 1].level

\* the entries of the stack with level < k, in their order
ShallowerThan(stack, k) ==
    LET Shallower(e) == e.level < k
    IN  SelectSeq(stack, Shallower)

VisitsHeading ==
    op = "emphasized" /\ pc = "walk" /\ pending # <<>> /\ Head(pending).kind = "Heading"

\* C19: at every point of the traversal the levels on the heading stack are
\* strictly increasing from bottom to top; right after a heading of level k is
\* visited the stack is the earlier entries of level < k, in their order,
\* followed by the new heading as the top entry.
C19_StackStrictlyIncreasing ==
    [][ /\ StrictlyIncreasing(heading_stack)
        /\ StrictlyIncreasing(heading_stack')
        /\ VisitsHeading =>
               heading_stack' =
                   Append(ShallowerThan(heading_stack, Head(pending).level),
                          [level |-> Head(pending).level,
                           text |-> _extract_text_from_token(Head(pending))])
      ]_vars

\* a level-3 heading was visited and popped again: the stack holds levels 1, 2
C19_Witness ==
    /\ op = "emphasized"
    /\ Len(heading_stack) = 2
    /\ heading_stack[1].level = 1
    /\ heading_stack[2].level = 2
    /\ \E n \in 1..Len(visited) : visited[n].kind = "Heading" /\ visited[n].level = 3

\* the number of "#" at the start of s
HashRun(s) ==
    IF \A n \in 1..Len(s) : s[n] = "#" THEN Len(s)
    ELSE (CHOOSE n \in 1..Len(s) : s[n] # "#" /\ \A m \in 1..(n - 1) : s[m] = "#") - 1

\* 0-based line i is, ignoring case and surrounding whitespace, a run of "#"
\* followed by whitespace and the section text
HeadsSection(i) ==
    LET s == Strip(FindLines[i + 1])
        rest == SubSeq(s, HashRun(s) + 1, Len(s))
    IN  /\ HashRun(s) >= 1
        /\ rest # <<>>
        /\ rest[1] \in Whitespace
        /\ Lower(LStrip(rest)) = Lower(Val(args.within_section))

\* the text of 0-based line k in which a closing "#" is looked for
ClosingText(k, stripped) == IF stripped THEN Strip(FindLines[k + 1]) ELSE FindLines[k + 1]

\* the section [i, j): i the first line heading the section, j the first later
\* line that starts with "#" with a run no longer than the one of line i, or
\* the number of lines; both absent when no line heads the section
SectionBound(stripped) ==
    LET N == Len(FindLines)
        starts == { i \in 0..(N - 1) : HeadsSection(i) }
    IN  IF starts = {} THEN [start |-> None, end |-> None]
        ELSE LET i == CHOOSE x \in starts : \A y \in starts : x <= y
                 level == HashRun(Strip(FindLines[i + 1]))
                 closing == { k \in (i + 1)..(N - 1) :
                                 /\ ClosingText(k, stripped) # <<>>
                                 /\ ClosingText(k, stripped)[1] = "#"
                                 /\ HashRun(ClosingText(k, stripped)) <= level }
                 j == IF closing = {} THEN N
                      ELSE CHOOSE x \in closing : \A y \in closing : x <= y
             IN  [start |-> Some(i), end |-> Some(j)]

\* the line numbers a search confined to the section b reports
MatchedLinesIn(b) ==
    { i + 1 : i \in { x \in 0..(Len(FindLines) - 1) :
                        /\ LineMatches(x)
                        /\ b.start # None => Val(b.start) <= x /\ x < Val(b.end) } }

ReportedLines == { matches[k].line_number : k \in 1..Len(matches) }

\* C20 as stated: with within_section given, the section starts at the first
\* line heading it and ends at the first later line that starts with "#" and
\* whose "#" run is no longer than the section's, or at the end of the text.
C20_SectionEndsAtHashLine ==
    (FindDone /\ SectionGiven) =>
        /\ FoundSection = SectionBound(FALSE)
        /\ ReportedLines = MatchedLinesIn(SectionBound(FALSE))

\* C20: with within_section given, the section starts at the first line heading
\* it and ends at the first later line whose text without surrounding
\* whitespace starts with "#" and whose "#" run is no longer than the
\* section's, or at the end of the text; deeper sub-headings stay inside; the
\* lines "# A", "x", "## B", "y Term z", "# C" with section "A" give [0, 4).
C20_SectionEndsAtStrippedHashLine ==
    (FindDone /\ SectionGiven) =>
        /\ FoundSection = SectionBound(TRUE)
        /\ ReportedLines = MatchedLinesIn(SectionBound(TRUE))
        /\ FoundSection.start # None => Val(FoundSection.start) < Val(FoundSection.end)
        /\ content = ScenarioText =>
               /\ FoundSection = [start |-> Some(0), end |-> Some(4)]
               /\ ReportedLines = {4}

\* a search whose section keeps a deeper heading line inside and is closed by
\* an indented "#" line, so that the matching last line is not reported
C20_Witness ==
    /\ FindDone
    /\ SectionGiven
    /\ Len(FindLines) = 3
    /\ FindLines[2] = <<"#", "#", " ", "b">>
    /\ FindLines[3] = <<" ", "#", " ", "a">>
    /\ FoundSection = [start |-> Some(0), end |-> Some(2)]
    /\ SectionBound(FALSE).end = Some(3)
    /\ LineMatches(2)
    /\ ReportedLines = {1}

\* list(_walk_tokens(token)): the token, then the walk of each child in turn
RECURSIVE _walk_tokens(_), WalkEach(_)
_walk_tokens(token) ==
    <<token>> \o (IF HasChildren(token) THEN WalkEach(token.children) ELSE <<>>)

WalkEach(tokens) ==
    IF tokens = <<>> THEN <<>>
    ELSE _walk_tokens(Head(tokens)) \o WalkEach(Tail(tokens))

\* the bold and italic nodes of the document, in depth-first pre-order
SpansInPreOrder == SelectSeq(WalkEach(document.children), IsSpan)

\* a span node that has a span node among its descendants
HasNestedSpan(token) ==
    IsSpan(token) /\ Len(SelectSeq(_walk_tokens(token), IsSpan)) > 1

\* C21: with no heading_filter and kind=all there is exactly one record for
\* every bold or italic node of the tree, at any depth (inside another span, a
\* heading or a nested container), and the records are in depth-first
\* pre-order, an outer span before the spans nested in it.
C21_EverySpanOnceInPreOrder ==
    (EmphasizedDone /\ args.type = "all" /\ ~FilterGiven) =>
        /\ visited = WalkEach(document.children)
        /\ Len(emphasized_items) = Len(SpansInPreOrder)
        /\ \A k \in 1..Len(emphasized_items) :
               /\ emphasized_items[k].type = SpanKind(SpansInPreOrder[k])
               /\ emphasized_items[k].text = _extract_text_from_token(SpansInPreOrder[k])

\* a finished kind=all call without filter on a document with a span inside a
\* heading, a span inside a span and a span inside a quoted paragraph
C21_Witness ==
    /\ EmphasizedDone
    /\ args.type = "all"
    /\ ~FilterGiven
    /\ Len(emphasized_items) = 4
    /\ document.children[1].kind = "Heading"
    /\ HasNestedSpan(document.children[2].children[1])
    /\ document.children[3].kind = "Quote"
    /\ [k \in 1..4 |-> emphasized_items[k].type] = <<"italic", "italic", "bold", "bold">>
    /\ emphasized_items[2].text = <<"i", "n">>
    /\ emphasized_items[3].text = <<"n">>

\* the stripped texts of the contributing non-heading nodes at i < k < j, in order
NonHeadingRangeParts(i, j) ==
    LET idx == { k \in (i + 1)..(j - 1) :
                    Contributes(k) /\ document.children[k + 1].kind # "Heading" }
        Nth(n) == CHOOSE k \in idx : Cardinality({ m \in idx : m < k }) = n - 1
    IN  [n \in 1..Cardinality(idx) |->
            Strip(_extract_text_from_token(document.children[Nth(n) + 1]))]

\* C22: the content attached to a heading is made only of the text of the
\* non-heading top-level nodes of its collection range: a deeper heading inside
\* the range neither ends the collection nor adds its own text to the content.
C22_ContentFromNonHeadingNodesOnly ==
    HeadingsDone =>
        \A k \in 1..Len(headings) :
            IncludeLevelIs(headings[k]) =>
                LET i == SelectedIndex(k)
                    parts == NonHeadingRangeParts(i, ContentEnd(i))
                    kept == IF LimitsGiven /\ parts # <<>>
                            THEN ApplyLimits(JoinLines(parts), args.include_content_lines,
                                             args.include_content_chars)
                            ELSE None
                IN  headings[k].content = IF TruthyStr(kept) THEN kept ELSE None

\* 0-based indices of the heading nodes among the document's direct children
TopLevelHeadings ==
    { i \in 0..(Len(document.children) - 1) : document.children[i + 1].kind = "Heading" }

\* the heading nodes anywhere in the tree
HeadingsInTree == SelectSeq(WalkEach(document.children), IsHeading)

\* C23: headings are recognised only among the direct children of the
\* document: a heading nested in another block container never gives a record,
\* whatever max_level is, so there are never more records than top-level
\* heading nodes.
C23_TopLevelHeadingsOnly ==
    HeadingsDone =>
        /\ Len(headings) <= Cardinality(TopLevelHeadings)
        /\ Len(headings) =
               Cardinality({ i \in TopLevelHeadings :
                               document.children[i + 1].level <= args.max_level })
        /\ \A k \in 1..Len(headings) :
               /\ SelectedIndex(k) \in TopLevelHeadings
               /\ headings[k].level = document.children[SelectedIndex(k) + 1].level
               /\ headings[k].text = HeadingText(document.children[SelectedIndex(k) + 1])

\* every level is asked for and the tree holds a heading inside a quote next to
\* a top-level one: only the top-level one is returned
C23_Witness ==
    /\ HeadingsDone
    /\ args.max_level = 6
    /\ Len(headings) = 1
    /\ Cardinality(TopLevelHeadings) = 1
    /\ Len(HeadingsInTree) = 2
    /\ \E k \in 1..Len(document.children) : document.children[k].kind = "Quote"

\* the heading nodes among the tokens v, in the order they were visited
HeadingsAmong(v) == SelectSeq(v, IsHeading)

\* the text of the heading visited last among the tokens v, if there is one
LastHeadingText(v) ==
    IF HeadingsAmong(v) = <<>> THEN None
    ELSE Some(_extract_text_from_token(HeadingsAmong(v)[Len(HeadingsAmong(v))]))

\* the top of the stack is the heading visited last among the tokens v
TopIsLastHeading(stack, v) ==
    /\ stack = <<>> <=> HeadingsAmong(v) = <<>>
    /\ stack # <<>> =>
           /\ stack[Len(stack)].level = HeadingsAmong(v)[Len(HeadingsAmong(v))].level
           /\ Some(stack[Len(stack)].text) = LastHeadingText(v)

\* C24: the stack gives the same context as remembering only the last heading
\* seen: at every point of the traversal the top of the stack is the heading
\* visited most recently, whatever the levels, so a record's heading_context is
\* the text of the nearest heading visited before the span in pre-order (the
\* heading that contains the span included) and is absent only when no heading
\* was visited before it.
C24_ContextIsLastHeadingSeen ==
    [][ /\ op = "emphasized" => TopIsLastHeading(heading_stack, visited)
        /\ op' = "emphasized" => TopIsLastHeading(heading_stack', visited')
        /\ (Emitted /\ IsSpan(Head(pending))) =>
               emphasized_items'[Len(emphasized_items')].heading_context
                   = LastHeadingText(visited)
      ]_vars

\* a level-1 heading after a level-2 one gives the context of the span after
\* it: two headings were visited, the stack holds the last one only
C24_Witness ==
    /\ EmphasizedDone
    /\ Len(HeadingsAmong(visited)) = 2
    /\ HeadingsAmong(visited)[1].level = 2
    /\ HeadingsAmong(visited)[2].level = 1
    /\ Len(heading_stack) = 1
    /\ emphasized_items # <<>>
    /\ emphasized_items[Len(emphasized_items)].heading_context = Some(<<"A">>)
    /\ visited[Len(visited)].kind # "Heading"

\* lines[max(0, i - before) : min(N, i + 1 + after)] of the whole text
WholeTextWindow(i) ==
    LET lo == IF i - args.lines_before > 0 THEN i - args.lines_before ELSE 0
        hi == IF i + 1 + args.lines_after < Len(FindLines)
              THEN i + 1 + args.lines_after ELSE Len(FindLines)
    IN  [j \in 1..(hi - lo) |-> FindLines[lo + j]]

SectionResolved == SectionGiven /\ FoundSection.start # None

\* C25: a resolved section [s, e) restricts which lines may match, not the
\* context window: the context_lines of a match on line i are still
\* lines[max(0, i - lines_before) : min(N, i + 1 + lines_after)] of the whole
\* text, cut only at 0 and N, so they can hold lines before s or from e on.
C25_ContextIgnoresSection ==
    (FindDone /\ SectionResolved) =>
        \A k \in 1..Len(matches) :
            /\ Val(FoundSection.start) <= matches[k].line_number - 1
            /\ matches[k].line_number - 1 < Val(FoundSection.end)
            /\ matches[k].context_lines = WholeTextWindow(matches[k].line_number - 1)

\* a one-line section in the middle of the text: the window of the match on
\* it holds the line before the section and the line after it
C25_Witness ==
    /\ FindDone
    /\ SectionResolved
    /\ Len(FindLines) = 3
    /\ FoundSection = [start |-> Some(1), end |-> Some(2)]
    /\ Len(matches) = 1
    /\ matches[1].line_number = 2
    /\ matches[1].context_lines = FindLines

NotPositive(limit) == limit = None \/ Val(limit) <= 0

\* C26: content is attached only when include_lines or include_chars is a
\* positive integer: with include_level set and both limits absent, or each
\* given limit <= 0, no record has content and every raw is the bare heading
\* line, even when body text follows a heading of that level.
C26_NoContentWithoutPositiveLimit ==
    (/\ HeadingsDone
     /\ args.include_content_for_level # None
     /\ NotPositive(args.include_content_lines)
     /\ NotPositive(args.include_content_chars)) =>
        \A k \in 1..Len(headings) :
            /\ headings[k].content = None
            /\ headings[k].raw = BareHeadingLine(headings[k])

\* both limits are given, neither is positive, and the first heading, at the
\* include level, is followed by body text
C26_Witness ==
    /\ HeadingsDone
    /\ args.include_content_for_level = Some(1)
    /\ args.include_content_lines = Some(0)
    /\ args.include_content_chars = Some(-1)
    /\ Len(headings) >= 1
    /\ SelectedIndex(1) = 0
    /\ headings[1].level = 1
    /\ RangeParts(0, ContentEnd(0)) # <<>>
    /\ headings[1].content = None

\* the operation ran to its end and found nothing
ZeroResults == CliDone /\ operation # None /\ results = <<>>

\* open(args.output, "w") is attempted and fails
WriteFails == TruthyStr(args.output) /\ ~Val(env).output_writable

\* C27 as stated: with zero results formatted output is written, to stdout or
\* to the output file, exactly when the format is json, and the exit code is 2
\* in every zero-result case.
C27_ZeroResultsWriteJsonOnly ==
    ZeroResults =>
        /\ OutputWritten <=> args.format = "json"
        /\ exit_code = Some(2)

\* C27: with zero results nothing is written for the markdown and text
\* formats and the exit code is 2; for json the no_matches object is written,
\* to the output file when one is named and to stdout otherwise, with exit
\* code 2, unless writing the output file fails: then nothing is written and
\* the exit code is 1.
C27_ZeroResultsWriteJsonUnlessWriteFails ==
    ZeroResults =>
        IF args.format = "json" /\ WriteFails
        THEN ~OutputWritten /\ Errored /\ exit_code = Some(1)
        ELSE /\ ~Errored
             /\ exit_code = Some(2)
             /\ OutputWritten <=> args.format = "json"
             /\ args.format = "json" =>
                    /\ Val(output).json.status = "no_matches"
                    /\ IF TruthyStr(args.output)
                       THEN out_file = output /\ stdout = <<>>
                       ELSE out_file = None
                            /\ stdout = <<[kind |-> "results", text |-> Val(output)]>>
             /\ args.format # "json" => out_file = None /\ stdout = <<>> /\ output = None

\* a search that found nothing, reported as JSON into the output file
C27_Witness ==
    /\ ZeroResults
    /\ operation = Some("find_and_extract")
    /\ args.format = "json"
    /\ out_file # None
    /\ Val(out_file).json.count = 0
    /\ stdout = <<>>
    /\ exit_code = Some(2)

\* a search that found nothing in text format: nothing is written
ZeroResultsSilent ==
    /\ ZeroResults
    /\ args.format = "text"
    /\ args.output # None
    /\ out_file = None
    /\ stdout = <<>>
    /\ exit_code = Some(2)

-----------------------------------------------------------------------------
(* The three extractors together *)

Init == InitHeadings \/ InitEmphasized \/ InitFind \/ InitCli

Next == NextHeadings \/ NextEmphasized \/ NextFind \/ NextCli

Spec == Init /\ [][Next]_vars

====
